---- MODULE Spec2Model ----
(***************************************************************************)
(* A model of FC3D.py: the chunked file transfer to a 3D printer over UDP  *)
(* (prepare / begin / chunk frames / end), the frame encoder               *)
(* make_checksum_array, and the command sender.                            *)
(*                                                                         *)
(* Byte strings (Python 2 str / bytearray) are sequences of 0..255.        *)
(* Python integers that may exceed 31 bits (file positions) are kept as    *)
(* pairs <<hi, lo>> standing for hi * 65536 + lo with lo in 0..65535.      *)
(***************************************************************************)
EXTENDS Integers, Sequences, FiniteSets, TLC

\* ------------------------------------------------------------------------
\* Program constants

\* BUFFERSIZE = 1280 (the read window and the receive buffer)
BUFFERSIZE == 1280

\* the terminator byte written at data_size + 5
Terminator == 131

\* ord('0'): the byte of the placeholder b'000000' appended to the data
PlaceholderByte == 48

\* (mutant) b'00000'
ShortPlaceholderLen == 6 - 1

\* the number of placeholder bytes in b'000000'
PlaceholderLen == 6

\* ------------------------------------------------------------------------
\* Python integers as <<hi, lo>> pairs

Half == 256 * 256

W(n) == <<n \div Half, n % Half>>

WAdd(w, n) == <<w[1] + ((w[2] + n) \div Half), (w[2] + n) % Half>>

\* struct.pack('>I', v) accepts 0 <= v <= 2^32 - 1
FitsU32(w) == w[1] >= 0 /\ w[1] < Half

\* ------------------------------------------------------------------------
\* Bytes

RECURSIVE XorBits(_, _, _)
XorBits(a, b, n) ==
    IF n = 0 THEN 0
    ELSE (((a % 2) + (b % 2)) % 2) + (2 * XorBits(a \div 2, b \div 2, n - 1))

\* a ^ b on two bytes
Xor(a, b) == XorBits(a, b, 8)

\* (mutant) struct.pack('<I', cur_file_pos): least significant byte first
PackLE(w) == << w[2] % 256, w[2] \div 256, w[1] % 256, w[1] \div 256 >>

\* struct.pack('>I', cur_file_pos): 4 bytes, most significant first
PackBE(w) == << w[1] \div 256, w[1] % 256, w[2] \div 256, w[2] % 256 >>

\* ------------------------------------------------------------------------
\* make_checksum_array (lines 160-202)

\* lines 195-197, one pass of the loop body at Python index i on the pair
\* <<data_array, checksum>>: checksum ^= data_array[i];
\* data_array[data_size + 4] = checksum.  Python index i is TLA+ index i + 1.
ChecksumStep(st, data_size, i) ==
    LET c == Xor(st[2], st[1][i + 1])
    IN  << [st[1] EXCEPT ![data_size + 5] = c], c >>

\* line 194: for i in range(lo, hi), the passes taken in increasing order of
\* i (the range is split in two so that the evaluation stays shallow).
RECURSIVE ChecksumLoop(_, _, _, _)
ChecksumLoop(st, data_size, lo, hi) ==
    IF hi <= lo THEN st
    ELSE IF hi = lo + 1 THEN ChecksumStep(st, data_size, lo)
    ELSE LET mid  == (lo + hi) \div 2
             left == ChecksumLoop(st, data_size, lo, mid)
         IN  \* the test on left only makes the first half be computed first
             IF left[2] \in 0..255
             THEN ChecksumLoop(left, data_size, mid, hi)
             ELSE left

\* (mutant) the loop stops at the end of the payload
ChecksumRangePayload(data_size) == data_size

\* line 194: the loop runs over range(data_size + 4)
ChecksumRange(data_size) == data_size + 4

\* (mutant) the test written with < for <=
DataSizeNegative(data_size) == data_size < 0

\* line 176: if data_size <= 0
DataSizeInvalid(data_size) == data_size <= 0

\* The result is [exc |-> "none", value |-> the frame] or [exc |-> the error].
make_checksum_array(data, cur_file_pos) ==
    LET data_array0 == data \o [k \in 1..PlaceholderLen |-> PlaceholderByte]
        data_size   == Len(data_array0) - 6
    IN  IF DataSizeInvalid(data_size) THEN [exc |-> "ValueError", value |-> << >>]
        ELSE IF ~FitsU32(cur_file_pos) THEN [exc |-> "struct.error", value |-> << >>]
        ELSE LET seek_array  == PackBE(cur_file_pos)
                 data_array1 == [data_array0 EXCEPT
                                    ![data_size + 1] = seek_array[4],
                                    ![data_size + 2] = seek_array[3],
                                    ![data_size + 3] = seek_array[2],
                                    ![data_size + 4] = seek_array[1]]
                 data_array2 == ChecksumLoop(<<data_array1, 0>>, data_size, 0,
                                             ChecksumRange(data_size))[1]
             IN  [exc   |-> "none",
                  value |-> [data_array2 EXCEPT ![data_size + 6] = Terminator]]

\* ------------------------------------------------------------------------
\* Bounds of the model and the inputs drawn from them

\* files hold up to MaxFullWindows full windows and one partial window
MaxFullWindows == 2

\* byte patterns 0..MaxSeed fill the files and the chunks
MaxSeed == 1

\* chunks of 0..MaxSmallLen bytes (and of BUFFERSIZE bytes) go to the encoder
MaxSmallLen == 3

Content(seed, n) == [i \in 1..n |-> (i * (2 * seed + 1) + 101 * seed + 47) % 256]

Remainders == {0, 1, 40, BUFFERSIZE - 1}

FileSizes == {k * BUFFERSIZE + r : k \in 0..MaxFullWindows, r \in Remainders}

\* os.path.getsize and open fail on a path that names no file
NoFile == <<-1>>

Disks == {NoFile} \cup {Content(seed, n) : seed \in 0..MaxSeed, n \in FileSizes}

\* "a", "b.g" and a name that is not ASCII (the two bytes of UTF-8 e-acute)
FileNames == { <<97>>, <<98, 46, 103>>, <<195, 169>> }

\* "M119" and the empty line
CustomCommands == { <<77, 49, 49, 57>>, << >> }

Options == {"file", "command", "custom", "other"}

Commands == {"z", "x", "a", "d", "e", "other"}

UnitChunks ==
    {Content(seed, n) : seed \in 0..MaxSeed, n \in (0..MaxSmallLen) \cup {BUFFERSIZE}}
    \cup { <<65, 66, 67>>, <<48, 48, 48>>, <<255>>, <<131, 0>> }

\* 0, 256, 1280, 2560, 0x01020304, 0x80000000, 2^32 - 1, 2^32, 2^32 + 1280
UnitOffsets ==
    { W(0), W(256), W(BUFFERSIZE), W(2 * BUFFERSIZE), <<258, 772>>,
      <<32768, 0>>, <<Half - 1, Half - 1>>, <<Half, 0>>, <<Half, BUFFERSIZE>> }

\* ------------------------------------------------------------------------
\* Text

M4001   == <<77, 52, 48, 48, 49>>
M28     == <<77, 50, 56, 32>>
M29     == <<77, 50, 57, 32>>
M30     == <<77, 51, 48, 32>>
G28_Z   == <<71, 50, 56, 32, 90>>
G28_X_Y == <<71, 50, 56, 32, 88, 32, 89>>
G28     == <<71, 50, 56>>

\* a name never assigned (customcommand outside the custom flow)
Undefined == <<-2>>

\* str.encode('utf-8', 'ignore') on a Python 2 byte string: the string is first
\* decoded as ASCII, strictly; the bytes of an ASCII string come back unchanged.
Encode(s) ==
    IF \A i \in 1..Len(s) : s[i] < 128
    THEN [exc |-> "none", value |-> s]
    ELSE [exc |-> "UnicodeDecodeError", value |-> << >>]

\* ------------------------------------------------------------------------
\* State

VARIABLES
    pc,             \* the statement the script is at
    stack,          \* the statements the calls in progress return to
    exc,            \* the uncaught exception that ended the script, or "none"
    option,         \* line 234
    command,        \* line 255
    gcodefile,      \* lines 237, 272
    customcommand,  \* line 279
    cmd,            \* the argument of send_command
    disk,           \* the bytes of the file at the path entered, or NoFile
    base,           \* the number of bytes of the file that precede disk
    filesize,       \* line 103
    read_bytes,     \* line 104
    fp,             \* the position of the open file
    cur_file_pos,   \* line 109
    chunk,          \* line 111
    progress,       \* history: the percentages printed at line 124
    sent,           \* the datagrams given to SOCKET.sendto, in order
    nrecv,          \* the number of SOCKET.recvfrom calls that returned
    inbox,          \* the replies of the printer waiting at the socket
    reads,          \* history: <<position before, length>> of every fp.read
    attempts,       \* history: every call of send_chunk made by send_file
    result          \* what a direct call of make_checksum_array returned

vars == << pc, stack, exc, option, command, gcodefile, customcommand, cmd, disk,
           filesize, read_bytes, fp, cur_file_pos, chunk, sent, nrecv, inbox,
           reads, attempts, result, base, progress >>

mainVars == << option, command, gcodefile, customcommand, cmd >>
fileVars == << disk, base, filesize, read_bytes, fp, cur_file_pos, chunk, reads,
              attempts, progress >>
netVars  == << sent, nrecv, inbox >>

NoResult == [exc |-> "none", value |-> << >>]

InitCommon ==
    /\ stack = << >>
    /\ exc = "none"
    /\ option = ""
    /\ command = ""
    /\ gcodefile = Undefined
    /\ customcommand = Undefined
    /\ cmd = Undefined
    /\ disk = NoFile
    /\ base = W(0)
    /\ filesize = W(0)
    /\ read_bytes = W(0)
    /\ progress = << >>
    /\ fp = W(0)
    /\ sent = << >>
    /\ nrecv = 0
    /\ inbox = 0
    /\ reads = << >>
    /\ attempts = << >>
    /\ result = NoResult

\* the script at line 234, the address entered
Init ==
    /\ InitCommon
    /\ pc = "main_234"
    /\ cur_file_pos = W(0)
    /\ chunk = << >>

\* ------------------------------------------------------------------------
\* Arithmetic on wide integers, and the float arithmetic of line 122

\* a < b
WLess(a, b) == a[1] < b[1] \/ (a[1] = b[1] /\ a[2] < b[2])

\* a + b
WPlus(a, b) == << a[1] + b[1] + ((a[2] + b[2]) \div Half), (a[2] + b[2]) % Half >>

\* a - b, for b <= a
WSub(a, b) ==
    IF a[2] >= b[2] THEN << a[1] - b[1], a[2] - b[2] >>
    ELSE << a[1] - b[1] - 1, a[2] + Half - b[2] >>

\* the domains of the recursive functions below; a function application
\* evaluates its arguments before the body
Positions == Nat \X Nat
BitSeqs == Seq({0, 1})

\* the least d * 2^j (j >= 0) greater than n, as <<d * 2^j, j>>
ScaleAbove[d \in Positions, n \in Positions, j \in Nat] ==
    IF WLess(n, d) THEN <<d, j>> ELSE ScaleAbove[WPlus(d, d), n, j + 1]

\* the least n * 2^(k-1) (k >= 1) that is at least half of d, with k, for
\* 0 < n < d
ScaleToHalf[n \in Positions, d \in Positions, k \in Nat] ==
    IF ~WLess(WPlus(n, n), d) THEN <<n, k>> ELSE ScaleToHalf[WPlus(n, n), d, k + 1]

\* binary long division: count more bits of r / d (r < d), most significant
\* first, appended to bits; the result is <<bits, remainder>>
DivBits[r \in Positions, d \in Positions, count \in Nat, bits \in BitSeqs] ==
    IF count = 0 THEN <<bits, r>>
    ELSE IF WLess(WPlus(r, r), d)
         THEN DivBits[WPlus(r, r), d, count - 1, Append(bits, 0)]
         ELSE DivBits[WSub(WPlus(r, r), d), d, count - 1, Append(bits, 1)]

\* bits (most significant first) plus one
BitsInc[bits \in BitSeqs] ==
    IF bits = << >> THEN <<1>>
    ELSE IF bits[Len(bits)] = 0
         THEN [bits EXCEPT ![Len(bits)] = 1]
         ELSE Append(BitsInc[SubSeq(bits, 1, Len(bits) - 1)], 0)

\* round to nearest, ties to even: bits is the quotient kept, above tells
\* whether the part dropped is above a half, tie whether it is a half
RoundEven(bits, above, tie) ==
    IF above \/ (tie /\ bits[Len(bits)] = 1) THEN BitsInc[bits] ELSE bits

\* bits (most significant first) times m, m small, plus carry
BitsTimes[bits \in BitSeqs, m \in Nat, carry \in Nat] ==
    IF bits = << >>
    THEN IF carry = 0 THEN << >> ELSE Append(BitsTimes[<< >>, m, carry \div 2], carry % 2)
    ELSE Append(BitsTimes[SubSeq(bits, 1, Len(bits) - 1), m,
                          ((bits[Len(bits)] * m) + carry) \div 2],
                ((bits[Len(bits)] * m) + carry) % 2)

\* the number bits (most significant first) stands for
BitsValue[bits \in BitSeqs] ==
    IF bits = << >> THEN 0
    ELSE (2 * BitsValue[SubSeq(bits, 1, Len(bits) - 1)]) + bits[Len(bits)]

AnyOne(bits) == \E i \in 1..Len(bits) : bits[i] = 1

\* the double nearest to n / d, for n, d > 0, as <<bits, e>>: the 53 (or, after
\* a carry, 54) bits of the mantissa, most significant first, and the number
\* e of those bits that follow the binary point
FloatDiv(n, d) ==
    LET sd == ScaleAbove[d, n, 0]
        sn == IF sd[2] = 0 THEN ScaleToHalf[n, sd[1], 1] ELSE <<n, 1>>
        q  == DivBits[sn[1], sd[1], 53, << >>]
        r2 == WPlus(q[2], q[2])
    IN  << RoundEven(q[1], WLess(sd[1], r2), r2 = sd[1]), 52 + sn[2] - sd[2] >>

\* the double nearest to f * m, for a double f = <<bits, e>> and m small
FloatTimes(f, m) ==
    LET p    == BitsTimes[f[1], m, 0]
        drop == Len(p) - 53
    IN  IF drop <= 0 THEN <<p, f[2]>>
        ELSE LET kept == SubSeq(p, 1, 53)
                 rest == SubSeq(p, 54, Len(p))
             IN  << RoundEven(kept, rest[1] = 1 /\ AnyOne(SubSeq(rest, 2, Len(rest))),
                              rest[1] = 1 /\ ~AnyOne(SubSeq(rest, 2, Len(rest)))),
                    f[2] - drop >>

\* round(f): the whole number nearest to the double f >= 0, a half going up
FloatRound(f) ==
    LET n == Len(f[1]) - f[2]
    IN  IF n < 0 THEN 0
        ELSE BitsValue[SubSeq(f[1], 1, n)] + (IF n < Len(f[1]) THEN f[1][n + 1] ELSE 0)

\* line 122: round(read_bytes / filesize * 100), with from __future__ import
\* division (line 1): a float division, a float product, and round, for
\* size > 0
Percentage(read, size) ==
    IF read = W(0) THEN 0 ELSE FloatRound(FloatTimes(FloatDiv(read, size), 100))

\* ------------------------------------------------------------------------
\* Calls, returns and exceptions

\* an exception no handler catches ends the script
Crash(e) ==
    /\ pc' = "crashed"
    /\ exc' = e
    /\ stack' = << >>

\* SOCKET.sendto(data, address), then the call of log_response; the function
\* that sends returns to ret when log_response has returned
SendThenLog(op, data, ret) ==
    /\ sent' = Append(sent, [op |-> op, data |-> data])
    /\ pc' = "log_response"
    /\ stack' = <<ret>> \o stack
    /\ UNCHANGED << exc, nrecv, inbox >>

\* (mutant) a recvfrom that gives up when no datagram is there
log_response_timeout ==
    /\ pc = "log_response"
    /\ IF inbox > 0
       THEN /\ inbox' = inbox - 1
            /\ nrecv' = nrecv + 1
       ELSE UNCHANGED << inbox, nrecv >>
    /\ pc' = Head(stack)
    /\ stack' = Tail(stack)
    /\ UNCHANGED << exc, sent, mainVars, fileVars, result >>

\* lines 28-38: recvfrom blocks until a datagram is there, and reads one
log_response ==
    /\ pc = "log_response"
    /\ inbox > 0
    /\ inbox' = inbox - 1
    /\ nrecv' = nrecv + 1
    /\ pc' = Head(stack)
    /\ stack' = Tail(stack)
    /\ UNCHANGED << exc, sent, mainVars, fileVars, result >>

\* (mutant) prepare_write returns without reading the reply
prepare_write_no_read(ret) ==
    /\ sent' = Append(sent, [op |-> "prepare", data |-> M4001])
    /\ pc' = ret
    /\ UNCHANGED << stack, exc, nrecv, inbox >>

\* lines 41-52
prepare_write(ret) == SendThenLog("prepare", M4001, ret)

\* (mutant) begin_write sends the M29 of end_write
begin_write_as_end(filename, ret) ==
    SendThenLog("end", M29 \o filename, ret)

\* lines 55-68
begin_write(filename, ret) ==
    LET e == Encode(M28 \o filename)
    IN  IF e.exc # "none"
        THEN Crash(e.exc) /\ UNCHANGED netVars
        ELSE SendThenLog("begin", e.value, ret)

\* lines 71-84
end_write(filename, ret) ==
    LET e == Encode(M29 \o filename)
    IN  IF e.exc # "none"
        THEN Crash(e.exc) /\ UNCHANGED netVars
        ELSE SendThenLog("end", e.value, ret)

\* ------------------------------------------------------------------------
\* send_chunk (lines 131-157)

\* line 149: if chunk_size <= 0
ChunkSizeInvalid(chunk_size) == chunk_size <= 0

\* (mutant) the position after the chunk is given to the encoder
send_chunk_frame_end_pos(c, pos) ==
    IF ChunkSizeInvalid(Len(c))
    THEN [exc |-> "ValueError", value |-> << >>]
    ELSE make_checksum_array(c, WAdd(pos, Len(c)))

\* lines 144-154: the frame send_chunk builds, or the exception it raises
send_chunk_frame(c, pos) ==
    IF ChunkSizeInvalid(Len(c))
    THEN [exc |-> "ValueError", value |-> << >>]
    ELSE make_checksum_array(c, pos)

\* a ValueError goes to the handler at catch when the caller has one ("" when
\* it has none); any other exception ends the script
send_chunk_outcome(r, ret, catch) ==
    IF r.exc = "none"
    THEN SendThenLog("chunk", r.value, ret)
    ELSE IF r.exc = "ValueError" /\ catch # ""
    THEN /\ pc' = catch
         /\ UNCHANGED << stack, exc, netVars >>
    ELSE Crash(r.exc) /\ UNCHANGED netVars

\* lines 144-157
send_chunk(c, pos, ret, catch) ==
    send_chunk_outcome(send_chunk_frame(c, pos), ret, catch)

\* ------------------------------------------------------------------------
\* send_file (lines 87-126)

\* the integer a position stands for (positions in a file are small)
PosInt(w) == w[1] * Half + w[2]

Min(a, b) == IF a <= b THEN a ELSE b

\* (mutant) a read that returns one byte less than asked for
ReadAtShort(bytes, pos, n) ==
    IF PosInt(pos) >= Len(bytes) THEN << >>
    ELSE SubSeq(bytes, PosInt(pos) + 1, Min(PosInt(pos) + n - 1, Len(bytes)))

\* fp.read(n) at position pos of a file holding bytes
ReadAt(bytes, pos, n) ==
    IF PosInt(pos) >= Len(bytes) THEN << >>
    ELSE SubSeq(bytes, PosInt(pos) + 1, Min(PosInt(pos) + n, Len(bytes)))

\* lines 100-106: getsize, read_bytes = 0, open
SendFile_Open ==
    /\ pc = "send_file_103"
    /\ IF disk = NoFile
       THEN /\ Crash("OSError")
            /\ UNCHANGED << filesize, read_bytes, fp >>
       ELSE /\ filesize' = WAdd(base, Len(disk))
            /\ read_bytes' = W(0)
            /\ fp' = W(0)
            /\ pc' = "send_file_109"
            /\ UNCHANGED << stack, exc >>
    /\ UNCHANGED << mainVars, netVars, disk, base, cur_file_pos, chunk, reads,
                    attempts, progress, result >>

\* (mutant) fp.tell() called after fp.read
SendFile_ReadThenTell ==
    /\ pc = "send_file_109"
    /\ LET data == ReadAt(disk, WSub(fp, base), BUFFERSIZE)
       IN  /\ cur_file_pos' = WAdd(fp, Len(data))
           /\ chunk' = data
           /\ fp' = WAdd(fp, Len(data))
           /\ reads' = Append(reads, <<fp, Len(data)>>)
           /\ IF Len(data) = 0
              THEN /\ pc' = Head(stack)
                   /\ stack' = Tail(stack)
              ELSE /\ pc' = "send_file_117"
                   /\ UNCHANGED stack
    /\ UNCHANGED << exc, mainVars, netVars, disk, base, filesize, read_bytes,
                    attempts, progress, result >>

\* (mutant) the loop without the test of line 112
SendFile_ReadNoBreak ==
    /\ pc = "send_file_109"
    /\ LET data == ReadAt(disk, WSub(fp, base), BUFFERSIZE)
       IN  /\ cur_file_pos' = fp
           /\ chunk' = data
           /\ fp' = WAdd(fp, Len(data))
           /\ reads' = Append(reads, <<fp, Len(data)>>)
           /\ pc' = "send_file_117"
           /\ UNCHANGED stack
    /\ UNCHANGED << exc, mainVars, netVars, disk, base, filesize, read_bytes,
                    attempts, progress, result >>

\* lines 109-114: tell, read, and the end of the loop on an empty chunk (the
\* with block closes the file and send_file returns)
SendFile_Read ==
    /\ pc = "send_file_109"
    /\ LET data == ReadAt(disk, WSub(fp, base), BUFFERSIZE)
       IN  /\ cur_file_pos' = fp
           /\ chunk' = data
           /\ fp' = WAdd(fp, Len(data))
           /\ reads' = Append(reads, <<fp, Len(data)>>)
           /\ IF Len(data) = 0
              THEN /\ pc' = Head(stack)
                   /\ stack' = Tail(stack)
              ELSE /\ pc' = "send_file_117"
                   /\ UNCHANGED stack
    /\ UNCHANGED << exc, mainVars, netVars, disk, base, filesize, read_bytes,
                    attempts, progress, result >>

\* (mutant) the handler sends the chunk again
AfterHandlerRetry == "send_file_117"

\* lines 125-126: the handler logs the ValueError; the next statement is the
\* top of the loop
AfterHandler == "send_file_109"

\* lines 116-117 and 125-126: the call of send_chunk inside try
SendFile_SendChunk ==
    /\ pc = "send_file_117"
    /\ send_chunk(chunk, cur_file_pos, "send_file_121", AfterHandler)
    /\ attempts' = Append(attempts,
            [offset |-> cur_file_pos, len |-> Len(chunk),
             sent |-> send_chunk_frame(chunk, cur_file_pos).exc = "none"])
    /\ UNCHANGED << mainVars, disk, base, filesize, read_bytes, fp, cur_file_pos,
                    chunk, reads, progress, result >>

\* (mutant) line 121 with = in place of +=
SendFile_ProgressLastChunk ==
    /\ pc = "send_file_121"
    /\ read_bytes' = W(Len(chunk))
    /\ IF filesize = W(0)
       THEN Crash("ZeroDivisionError") /\ UNCHANGED progress
       ELSE /\ progress' = Append(progress, Percentage(W(Len(chunk)), filesize))
            /\ pc' = "send_file_109"
            /\ UNCHANGED << stack, exc >>
    /\ UNCHANGED << mainVars, netVars, disk, base, filesize, fp, cur_file_pos, chunk,
                    reads, attempts, result >>

\* lines 121-124: the count of the bytes sent, the percentage and the
\* progress line
SendFile_Progress ==
    /\ pc = "send_file_121"
    /\ read_bytes' = WAdd(read_bytes, Len(chunk))
    /\ IF filesize = W(0)
       THEN Crash("ZeroDivisionError") /\ UNCHANGED progress
       ELSE /\ progress' = Append(progress,
                                  Percentage(WAdd(read_bytes, Len(chunk)), filesize))
            /\ pc' = "send_file_109"
            /\ UNCHANGED << stack, exc >>
    /\ UNCHANGED << mainVars, netVars, disk, base, filesize, fp, cur_file_pos, chunk,
                    reads, attempts, result >>

\* ------------------------------------------------------------------------
\* send_command (lines 205-218)

\* (mutant) send_command without its call of prepare_write
send_command_no_prepare(c, ret) ==
    /\ cmd' = c
    /\ stack' = <<ret>> \o stack
    /\ pc' = "send_command_217"
    /\ UNCHANGED << exc, netVars >>

\* line 216
send_command(c, ret) ==
    /\ cmd' = c
    /\ stack' = <<"send_command_217", ret>> \o stack
    /\ sent' = Append(sent, [op |-> "prepare", data |-> M4001])
    /\ pc' = "log_response"
    /\ UNCHANGED << exc, nrecv, inbox >>

\* lines 217-218
SendCommand_Send ==
    /\ pc = "send_command_217"
    /\ sent' = Append(sent, [op |-> "command", data |-> cmd])
    /\ pc' = "log_response"
    /\ UNCHANGED << stack, exc, nrecv, inbox, mainVars, fileVars, result >>

\* ------------------------------------------------------------------------
\* The script (lines 234-281)

\* lines 234-239: the file option, up to the M4001 of prepare_write
Main_File ==
    /\ pc = "main_234"
    /\ option' = "file"
    /\ \E name \in FileNames, bytes \in Disks :
          /\ gcodefile' = name
          /\ disk' = bytes
    /\ prepare_write("main_241")
    /\ UNCHANGED << command, customcommand, cmd, base, filesize, read_bytes, fp,
                    cur_file_pos, chunk, reads, attempts, progress, result >>

\* line 241
Main_Begin ==
    /\ pc = "main_241"
    /\ begin_write(gcodefile, "main_243")
    /\ UNCHANGED << mainVars, fileVars, result >>

\* line 243
Main_SendFile ==
    /\ pc = "main_243"
    /\ pc' = "send_file_103"
    /\ stack' = <<"main_245">> \o stack
    /\ UNCHANGED << exc, mainVars, fileVars, netVars, result >>

\* line 245
Main_End ==
    /\ pc = "main_245"
    /\ end_write(gcodefile, "main_280")
    /\ UNCHANGED << mainVars, fileVars, result >>

\* lines 247-276: the command option; a listed command is sent, exit() ends
\* the script, any other answer falls through to line 278
Main_Command ==
    /\ pc = "main_234"
    /\ option' = "command"
    /\ \E c \in Commands :
          /\ command' = c
          /\ CASE c = "z" -> send_command(G28_Z, "main_280") /\ UNCHANGED gcodefile
               [] c = "x" -> send_command(G28_X_Y, "main_280") /\ UNCHANGED gcodefile
               [] c = "a" -> send_command(G28, "main_280") /\ UNCHANGED gcodefile
               [] c = "d" -> \E name \in FileNames :
                                /\ gcodefile' = name
                                /\ send_command(M30 \o name, "main_280")
               [] c = "e" -> /\ pc' = "exit"
                             /\ UNCHANGED << stack, exc, netVars, cmd, gcodefile >>
               [] OTHER   -> /\ pc' = "main_280"
                             /\ UNCHANGED << stack, exc, netVars, cmd, gcodefile >>
    /\ UNCHANGED << customcommand, fileVars, result >>

\* lines 278-279: the custom option reads customcommand
Main_Custom ==
    /\ pc = "main_234"
    /\ option' = "custom"
    /\ \E c \in CustomCommands : customcommand' = c
    /\ pc' = "main_280"
    /\ UNCHANGED << stack, exc, command, gcodefile, cmd, fileVars, netVars, result >>

\* any other answer at line 234: none of the three tests holds
Main_Other ==
    /\ pc = "main_234"
    /\ option' = "other"
    /\ pc' = "main_280"
    /\ UNCHANGED << stack, exc, command, gcodefile, customcommand, cmd, fileVars,
                    netVars, result >>

\* lines 280-281 stand outside the test of line 278 and run in every flow:
\* cmd = customcommand raises NameError unless line 279 ran
Main_Tail ==
    /\ pc = "main_280"
    /\ IF customcommand = Undefined
       THEN Crash("NameError") /\ UNCHANGED << netVars, cmd >>
       ELSE send_command(customcommand, "end")
    /\ UNCHANGED << option, command, gcodefile, customcommand, fileVars, result >>

\* ------------------------------------------------------------------------
\* The printer: it may answer a datagram it has not answered yet

PrinterReply ==
    /\ nrecv + inbox < Len(sent)
    /\ inbox' = inbox + 1
    /\ UNCHANGED << pc, stack, exc, mainVars, fileVars, sent, nrecv, result >>

\* The handler of lines 125-126 under a ValueError of send_chunk.  No chunk
\* send_file reads makes send_chunk raise one (the read of an empty chunk ends
\* the loop first), so the handler is exercised by letting the call at line 117
\* fail for a window, as a stub of the frame encoder would.
SendFile_ChunkFails ==
    /\ pc = "send_file_117"
    /\ send_chunk_outcome([exc |-> "ValueError", value |-> << >>],
                          "send_file_121", AfterHandler)
    /\ attempts' = Append(attempts,
            [offset |-> cur_file_pos, len |-> Len(chunk), sent |-> FALSE])
    /\ UNCHANGED << mainVars, disk, base, filesize, read_bytes, fp, cur_file_pos,
                    chunk, reads, progress, result >>

\* ------------------------------------------------------------------------
\* Direct calls of the encoder and of send_chunk on drawn arguments

InitUnit ==
    /\ InitCommon
    /\ pc = "unit"
    /\ chunk \in UnitChunks
    /\ cur_file_pos \in UnitOffsets

\* make_checksum_array(chunk, cur_file_pos)
Unit_MakeChecksumArray ==
    /\ pc = "unit"
    /\ LET r == make_checksum_array(chunk, cur_file_pos)
       IN  /\ result' = r
           /\ IF r.exc = "none"
              THEN /\ pc' = "unit_made"
                   /\ UNCHANGED << stack, exc >>
              ELSE Crash(r.exc)
    /\ UNCHANGED << mainVars, fileVars, netVars >>

\* send_chunk(chunk, cur_file_pos, SOCKET, address), no handler around it
Unit_SendChunk ==
    /\ pc = "unit"
    /\ send_chunk(chunk, cur_file_pos, "unit_sent", "")
    /\ UNCHANGED << mainVars, fileVars, result >>

NextUnit ==
    \/ Unit_MakeChecksumArray
    \/ Unit_SendChunk
    \/ log_response
    \/ PrinterReply

SpecUnit == InitUnit /\ [][NextUnit]_vars

Next ==
    \/ Main_File
    \/ Main_Begin
    \/ Main_SendFile
    \/ Main_End
    \/ Main_Command
    \/ Main_Custom
    \/ Main_Other
    \/ Main_Tail
    \/ SendFile_Open
    \/ SendFile_Read
    \/ SendFile_SendChunk
    \/ SendFile_Progress
    \/ SendCommand_Send
    \/ log_response
    \/ PrinterReply

Spec == Init /\ [][Next]_vars

NextFault ==
    \/ Next
    \/ SendFile_ChunkFails

SpecFault == Init /\ [][NextFault]_vars

\* ------------------------------------------------------------------------
\* The loop of send_file on its own (lines 106-126), followed by lines 245
\* and 280: the script at the top of the loop, M4001 and M28 exchanged

\* the windows of the long file
TieWindows == 40

\* 2^32 - 1536 = 1280 * 3355442: the position after 3355442 full windows, the
\* last but one below 2^32
BigBase == << Half - 1, Half - (BUFFERSIZE + 256) >>

\* the file names begin_write can encode
LoopNames == { name \in FileNames : Encode(M28 \o name).exc = "none" }

\* the files, as <<base, disk>>: the files of Disks and a file of TieWindows
\* windows from their first byte; files of BigBase bytes and more from the
\* byte at BigBase on
LoopFiles ==
    { <<W(0), Content(seed, n)>> : seed \in 0..MaxSeed, n \in FileSizes }
    \cup { <<W(0), Content(0, TieWindows * BUFFERSIZE)>> }
    \cup { <<BigBase, Content(seed, n)>> : seed \in 0..MaxSeed, n \in FileSizes }

\* The top of the loop (line 109) with base bytes read and sent in full
\* windows: at once after the open of line 106 when base is 0, after
\* base / 1280 turns of the loop otherwise.  sent holds M4001 and M28; the
\* histories leave out the windows before base.
InitLoop ==
    /\ pc = "send_file_109"
    /\ stack = <<"main_245">>
    /\ exc = "none"
    /\ option = "file"
    /\ command = ""
    /\ gcodefile \in LoopNames
    /\ customcommand = Undefined
    /\ cmd = Undefined
    /\ \E f \in LoopFiles :
          /\ base = f[1]
          /\ disk = f[2]
          /\ filesize = WAdd(f[1], Len(f[2]))
          /\ read_bytes = f[1]
          /\ fp = f[1]
          /\ cur_file_pos = IF f[1] = W(0) THEN W(0) ELSE WSub(f[1], W(BUFFERSIZE))
          /\ chunk = IF f[1] = W(0) THEN << >> ELSE Content(0, BUFFERSIZE)
    /\ sent = << [op |-> "prepare", data |-> M4001],
                 [op |-> "begin", data |-> M28 \o gcodefile] >>
    /\ nrecv = 2
    /\ inbox = 0
    /\ reads = << >>
    /\ attempts = << >>
    /\ progress = << >>
    /\ result = NoResult

NextLoop ==
    \/ SendFile_Read
    \/ SendFile_SendChunk
    \/ SendFile_Progress
    \/ Main_End
    \/ Main_Tail
    \/ log_response
    \/ PrinterReply

SpecLoop == InitLoop /\ [][NextLoop]_vars

\* ------------------------------------------------------------------------
\* Properties of the frame encoder (SpecUnit)

\* the exclusive-or of s[lo..hi]
RECURSIVE XorRange(_, _, _)
XorRange(s, lo, hi) ==
    IF hi < lo THEN 0
    ELSE IF hi = lo THEN s[lo]
    ELSE Xor(XorRange(s, lo, (lo + hi) \div 2), XorRange(s, ((lo + hi) \div 2) + 1, hi))

\* an offset, least significant byte first
OffsetLSBFirst(w) == << w[2] % 256, w[2] \div 256, w[1] % 256, w[1] \div 256 >>

\* the 4 bytes of an offset field reversed, then read as big-endian
DecodeField(b) == << b[4] * 256 + b[3], b[2] * 256 + b[1] >>

ChecksumOK(frame) ==
    frame[Len(frame) - 1] = XorRange(frame, 1, Len(frame) - 2)

\* C6: the byte at position N+4 of a frame make_checksum_array returns is the
\* exclusive-or of the bytes at positions 0..N+3, that is of the N payload
\* bytes and the 4 offset bytes, least significant first; the placeholder
\* bytes do not enter it.  The same holds of every frame send_chunk sends.
C6_ChecksumIsXor ==
    /\ pc = "unit_made" =>
          /\ ChecksumOK(result.value)
          /\ result.value[Len(chunk) + 5] =
                Xor(XorRange(chunk, 1, Len(chunk)),
                    XorRange(OffsetLSBFirst(cur_file_pos), 1, 4))
    /\ \A i \in 1..Len(sent) : sent[i].op = "chunk" => ChecksumOK(sent[i].data)

\* "ABC" at offset 256 gives the checksum 0x41
C6_Witness ==
    /\ pc = "unit_made"
    /\ chunk = <<65, 66, 67>>
    /\ cur_file_pos = W(256)
    /\ result.value = <<65, 66, 67, 0, 1, 0, 0, 65, 131>>

\* C7: the 4 bytes at positions N..N+3 of a frame make_checksum_array returns,
\* reversed and read as an unsigned big-endian integer, are the offset given.
C7_OffsetRoundTrip ==
    pc = "unit_made" =>
        DecodeField(SubSeq(result.value, Len(chunk) + 1, Len(chunk) + 4)) = cur_file_pos

\* offset 2^32 - 1 on a full window
C7_Witness ==
    /\ pc = "unit_made"
    /\ Len(chunk) = BUFFERSIZE
    /\ cur_file_pos = <<Half - 1, Half - 1>>
    /\ SubSeq(result.value, BUFFERSIZE + 1, BUFFERSIZE + 4) = <<255, 255, 255, 255>>

\* C8: for a chunk of 1..1280 bytes and an offset that fits in 32 bits,
\* make_checksum_array returns a frame of N + 6 bytes whose first N bytes are
\* the chunk and whose last byte is 0x83.
C8_FrameShape ==
    /\ pc = "unit_made" =>
          /\ Len(result.value) = Len(chunk) + 6
          /\ SubSeq(result.value, 1, Len(chunk)) = chunk
          /\ result.value[Len(chunk) + 6] = 131
    /\ result.exc # "none" => Len(chunk) = 0 \/ ~FitsU32(cur_file_pos)

C8_Witness ==
    /\ pc = "unit_made"
    /\ Len(chunk) = 1280
    /\ cur_file_pos = W(2560)
    /\ Len(result.value) = 1286
    /\ result.value[1286] = 131

\* C9: on a chunk of length 0 both make_checksum_array and send_chunk raise
\* ValueError: no frame is returned, no datagram is sent, no reply is read.
C9_EmptyChunkRaises ==
    (Len(chunk) = 0 /\ pc # "unit") =>
        /\ pc = "crashed"
        /\ exc = "ValueError"
        /\ result.value = << >>
        /\ sent = << >>
        /\ nrecv = 0

\* send_chunk called on the empty chunk has raised
C9_Witness ==
    /\ Len(chunk) = 0
    /\ pc = "crashed"
    /\ exc = "ValueError"
    /\ result = NoResult
    /\ sent = << >>

\* ------------------------------------------------------------------------
\* Properties of the transfer (Spec, SpecFault)

IsChunk(d) == d.op = "chunk"

\* the chunk frames sent so far, in the order sent
ChunkFrames == SelectSeq(sent, IsChunk)

FramePayload(f) == SubSeq(f, 1, Len(f) - 6)

FrameOffset(f) == DecodeField(SubSeq(f, Len(f) - 5, Len(f) - 2))

EndSent == \E i \in 1..Len(sent) : sent[i].op = "end"

\* send_file has returned
SendFileReturned == option = "file" /\ (pc = "main_245" \/ EndSent)

\* ceil(size / 1280)
WindowCount(size) == (size + 1279) \div 1280

\* the length of window k (from 1) of a file of size bytes
WindowLen(size, k) == IF 1280 * k <= size THEN 1280 ELSE size - (1280 * (k - 1))

\* C1: in the file flow the datagrams sent are M4001, then M28 and the file
\* name, then chunk frames only, then M29 and the file name, which is the
\* last datagram of the run.
C1_TransferOrder ==
    option = "file" =>
        /\ Len(sent) >= 1
        /\ sent[1] = [op |-> "prepare", data |-> M4001]
        /\ Len(sent) >= 2 => sent[2] = [op |-> "begin", data |-> M28 \o gcodefile]
        /\ \A i \in 3..Len(sent) :
              \/ /\ sent[i].op = "chunk"
                 /\ sent[i].data[Len(sent[i].data)] = 131
              \/ /\ sent[i] = [op |-> "end", data |-> M29 \o gcodefile]
                 /\ i = Len(sent)

\* the run has ended after M4001, M28, three frames and M29
C1_Witness ==
    /\ option = "file"
    /\ pc = "crashed"
    /\ Len(sent) = 6
    /\ sent[5].op = "chunk"
    /\ sent[6].op = "end"
    /\ nrecv = 6

RECURSIVE SumLens(_, _)
SumLens(rs, k) == IF k <= 0 THEN 0 ELSE SumLens(rs, k - 1) + rs[k][2]

\* C2: the offset given to send_chunk for a window is the sum of the lengths
\* of the windows read before it, the file position before its read, and
\* not the position after it.
C2_OffsetBeforeRead ==
    /\ \A k \in 1..Len(attempts) : attempts[k].offset = W(SumLens(reads, k - 1))
    /\ pc = "send_file_117" =>
          /\ cur_file_pos = W(SumLens(reads, Len(reads) - 1))
          /\ fp = WAdd(cur_file_pos, Len(chunk))
          /\ cur_file_pos # fp

C2_Witness ==
    /\ pc = "send_file_117"
    /\ Len(reads) = 3
    /\ cur_file_pos = W(2560)
    /\ fp = W(2600)

\* C3: a file of S bytes is read as ceil(S/1280) non-empty windows, window k
\* (from 0) at offset 1280*k, every window 1280 bytes long but the last, and
\* the loop ends at the first read of zero bytes.
C3_Windows ==
    disk # NoFile =>
        /\ \A k \in 1..Len(reads) :
              IF k <= WindowCount(Len(disk))
              THEN reads[k] = << W(1280 * (k - 1)), WindowLen(Len(disk), k) >>
              ELSE /\ k = WindowCount(Len(disk)) + 1
                   /\ reads[k][2] = 0
                   /\ pc \notin {"send_file_109", "send_file_117", "send_file_121"}
                   /\ \A j \in 1..Len(stack) : stack[j] # "send_file_121"
        /\ \A k \in 1..Len(attempts) :
              /\ k <= WindowCount(Len(disk))
              /\ attempts[k].offset = reads[k][1]
              /\ attempts[k].len = reads[k][2]
        /\ SendFileReturned =>
              /\ Len(reads) = WindowCount(Len(disk)) + 1
              /\ Len(attempts) = WindowCount(Len(disk))

\* Scenario C
C3_Witness ==
    /\ Len(disk) = 2600
    /\ pc = "main_245"
    /\ reads = << <<W(0), 1280>>, <<W(1280), 1280>>, <<W(2560), 40>>, <<W(2600), 0>> >>

RECURSIVE ConcatPayloads(_, _)
ConcatPayloads(fs, k) ==
    IF k <= 0 THEN << >> ELSE ConcatPayloads(fs, k - 1) \o FramePayload(fs[k].data)

\* C4: when no frame construction fails, the frames go out in strictly
\* increasing offset order, the frame with offset o and n payload bytes
\* carries the file bytes [o, o+n), a frame is built only when every
\* earlier datagram has been answered, and the payloads in send order make
\* up the whole file.
C4_PayloadsAreTheFile ==
    (option = "file" /\ \A k \in 1..Len(attempts) : attempts[k].sent) =>
        /\ Len(ChunkFrames) = Len(attempts)
        /\ \A i \in 1..Len(ChunkFrames) :
              LET f == ChunkFrames[i].data
                  o == PosInt(FrameOffset(f))
              IN  /\ Len(f) >= 7
                  /\ o + Len(f) - 6 <= Len(disk)
                  /\ FramePayload(f) = SubSeq(disk, o + 1, o + Len(f) - 6)
        /\ \A i \in 1..(Len(ChunkFrames) - 1) :
              WLess(FrameOffset(ChunkFrames[i].data), FrameOffset(ChunkFrames[i + 1].data))
        /\ pc = "send_file_117" => nrecv = Len(sent)
        /\ SendFileReturned => ConcatPayloads(ChunkFrames, Len(ChunkFrames)) = disk

C4_Witness ==
    /\ SendFileReturned
    /\ Len(disk) = 2600
    /\ Len(ChunkFrames) = 3
    /\ FrameOffset(ChunkFrames[3].data) = W(2560)
    /\ Len(ChunkFrames[3].data) = 46

IsSentAttempt(a) == a.sent

\* C5: a window whose send_chunk raises ValueError sends nothing and is not
\* retried; every window of the file is still attempted once, in order and
\* at its failure-free offset and length, the frames sent are those of the
\* windows that did not fail, and the loop ends at end of file.
C5_SkipAndContinue ==
    (option = "file" /\ disk # NoFile) =>
        /\ \A k \in 1..Len(attempts) :
              /\ k <= WindowCount(Len(disk))
              /\ attempts[k].offset = W(1280 * (k - 1))
              /\ attempts[k].len = WindowLen(Len(disk), k)
        /\ LET done == SelectSeq(attempts, IsSentAttempt)
           IN  /\ Len(ChunkFrames) = Len(done)
               /\ \A j \in 1..Len(done) :
                     LET f == ChunkFrames[j].data
                         o == PosInt(done[j].offset)
                     IN  /\ FrameOffset(f) = done[j].offset
                         /\ FramePayload(f) = SubSeq(disk, o + 1, o + done[j].len)
        /\ nrecv <= Len(sent)
        /\ Len(sent) <= nrecv + 1
        /\ SendFileReturned => Len(attempts) = WindowCount(Len(disk))

\* Scenario D: the second of three windows failed, the third went out
C5_Witness ==
    /\ Len(disk) = 2600
    /\ pc = "main_245"
    /\ Len(attempts) = 3
    /\ attempts[1].sent /\ ~attempts[2].sent /\ attempts[3].sent
    /\ Len(ChunkFrames) = 2
    /\ FrameOffset(ChunkFrames[2].data) = W(2560)
    /\ Len(sent) = 4

\* C10: sends and reads of replies alternate: a send is made only when every
\* datagram sent has had its reply read, and the script then waits in
\* log_response for one reply.
C10_SendReadAlternate ==
    /\ nrecv <= Len(sent)
    /\ Len(sent) <= nrecv + 1
    /\ (Len(sent) = nrecv + 1) <=> (pc = "log_response")

\* a command sent after its M4001 was answered, its own reply not yet read
C10_Witness ==
    /\ option = "command"
    /\ pc = "log_response"
    /\ Len(sent) = 2
    /\ nrecv = 1
    /\ sent[2].op = "command"

\* ------------------------------------------------------------------------
\* Properties of the command sender and of the flows

\* the string a listed command stands for
ListedCommand(c) ==
    CASE c = "z" -> G28_Z
      [] c = "x" -> G28_X_Y
      [] c = "a" -> G28
      [] c = "d" -> M30 \o gcodefile
      [] OTHER   -> Undefined

\* the string the flow gives to send_command
CommandGiven == IF option = "custom" THEN customcommand ELSE ListedCommand(command)

\* send_command has returned
SendCommandReturned ==
    \/ option = "command" /\ command \in {"z", "x", "a", "d"} /\ pc \in {"main_280", "crashed"}
    \/ option = "custom" /\ pc = "end"

\* C11: send_command sends M4001 and reads its reply, then sends the command
\* string as it is, nothing added, and reads one reply: two sends and two
\* reads in that order, and no M28, M29 or chunk frame.
C11_SendCommand ==
    option \in {"command", "custom"} =>
        /\ Len(sent) <= 2
        /\ Len(sent) >= 1 => sent[1] = [op |-> "prepare", data |-> M4001]
        /\ Len(sent) >= 2 =>
              /\ sent[2] = [op |-> "command", data |-> CommandGiven]
              /\ nrecv >= 1
        /\ pc = "send_command_217" => (Len(sent) = 1 /\ nrecv = 1)
        /\ SendCommandReturned => (Len(sent) = 2 /\ nrecv = 2)

\* the delete command for "b.g" has been sent and answered
C11_Witness ==
    /\ option = "command"
    /\ command = "d"
    /\ pc = "main_280"
    /\ sent = << [op |-> "prepare", data |-> M4001],
                 [op |-> "command", data |-> <<77, 51, 48, 32, 98, 46, 103>>] >>
    /\ nrecv = 2

\* C12: every chunk send_file gives to send_chunk has 1..1280 bytes, so
\* neither send_chunk nor make_checksum_array raises the zero-length
\* ValueError in a transfer.
C12_NoEmptyChunk ==
    /\ pc = "send_file_117" => (Len(chunk) >= 1 /\ Len(chunk) <= 1280)
    /\ \A k \in 1..Len(attempts) :
          /\ attempts[k].len >= 1
          /\ attempts[k].len <= 1280
          /\ attempts[k].sent
    /\ exc # "ValueError"

\* the last read of a 2600-byte file gave 40 bytes, which were sent; the
\* next read gave none and ended the loop
C12_Witness ==
    /\ pc = "main_245"
    /\ Len(attempts) = 3
    /\ attempts[3].len = 40
    /\ attempts[3].sent
    /\ reads[4][2] = 0

\* the script waits in log_response and no reply is there
Blocked == pc = "log_response" /\ inbox = 0

\* C15: while no reply has come the script stays in the read: no step of it
\* is possible, so nothing more is sent and the run does not end; there is
\* no timeout and no retransmission.
C15_BlockedForever ==
    [][Blocked => /\ pc' = "log_response"
                  /\ sent' = sent
                  /\ nrecv' = nrecv
                  /\ stack' = stack
                  /\ exc' = exc]_vars

\* a chunk frame is out and the printer has not answered it
C15_Witness ==
    /\ Blocked
    /\ Len(sent) = 4
    /\ sent[4].op = "chunk"
    /\ nrecv = 3

\* C17: the file flow and the listed-command flow end without reaching the
\* statements of the custom flow (lines 280-281) and without an uncaught
\* NameError.
C17_FlowsEndNormally ==
    option \in {"file", "command"} =>
        /\ pc # "main_280"
        /\ ~(pc = "crashed" /\ exc = "NameError")

\* ------------------------------------------------------------------------
\* Properties of a transfer from the top of the loop (SpecLoop)

\* the script has stopped
Stopped == pc \in {"crashed", "end", "exit"}

\* M29 was sent and its reply read
EndAcknowledged == EndSent /\ nrecv = Len(sent)

\* C13: every offset that send_file passes to the frame encoder fits in 32
\* bits unsigned, and the script does not stop on an exception of the encoder
\* before M29 is sent: a crash comes only after the M29 datagram.
C13_OffsetsFit ==
    /\ \A k \in 1..Len(attempts) : FitsU32(attempts[k].offset)
    /\ (pc = "send_file_117" => FitsU32(cur_file_pos))
    /\ (pc = "crashed" => EndSent)

\* C14: with a printer that answers, the transfer of a file ends with M29
\* sent and acknowledged: whenever the script has stopped, the loop has ended
\* on a read of zero bytes and the M29 datagram was sent and its reply read.
C14_TransferCompletes ==
    Stopped =>
        /\ reads # << >>
        /\ reads[Len(reads)][2] = 0
        /\ EndAcknowledged

\* the bytes carried by the first k chunk frames
RECURSIVE SentBytes(_)
SentBytes(k) ==
    IF k <= 0 THEN 0 ELSE SentBytes(k - 1) + (Len(ChunkFrames[k].data) - 6)

\* the whole number nearest to 100 * n / d, a half going up
ExactRound(n, d) ==
    CHOOSE p \in 0..100 : (2 * p - 1) * d <= 200 * n /\ 200 * n < (2 * p + 1) * d

\* p is a whole number nearest to 100 * n / d (either one at a half)
NearestPercent(p, n, d) ==
    (2 * p - 1) * d <= 200 * n /\ 200 * n <= (2 * p + 1) * d

\* C16 as stated: each value printed is round(100 * read_bytes / filesize),
\* larger than the value printed for the chunk before, at most 100, and 100
\* for the last chunk of a transfer that skipped no chunk.
C16_ProgressIncreases ==
    /\ \A k \in 1..Len(progress) :
          /\ base = W(0) => progress[k] = ExactRound(SentBytes(k), Len(disk))
          /\ k > 1 => progress[k] > progress[k - 1]
          /\ progress[k] <= 100
    /\ (SendFileReturned /\ progress # << >>) => progress[Len(progress)] = 100

\* C16 (amended): each value printed is read_bytes / filesize * 100 rounded
\* to a nearest whole number (at an exact half the float product may fall on
\* either side), not smaller than the value printed for the chunk before, at
\* most 100, and 100 for the last chunk of a transfer that skipped no chunk.
C16_ProgressNonDecreasing ==
    /\ \A k \in 1..Len(progress) :
          /\ base = W(0) => NearestPercent(progress[k], SentBytes(k), Len(disk))
          /\ k > 1 => progress[k] >= progress[k - 1]
          /\ progress[k] <= 100
    /\ (SendFileReturned /\ progress # << >>) => progress[Len(progress)] = 100

C16_Witness ==
    /\ SendFileReturned
    /\ Len(disk) = 2600
    /\ base = W(0)
    /\ progress = <<49, 98, 100>>

====
